---------------------------- MODULE Spec2Model ----------------------------
(***************************************************************************)
(* Model of the separate-chaining hash table of src/hash_table/HashTable.h *)
(* (HashTable<Key, Value> with Key = int, whose std::hash is the identity  *)
(* in libstdc++).                                                          *)
(*                                                                         *)
(* A chain is a sequence of nodes, head first.  `buckets` is the storage   *)
(* of the std::vector (one chain per allocated slot, indexed from 0) and   *)
(* `buckets_size` is the vector's size(): Clear() empties the vector but   *)
(* leaves table_size alone, so afterwards buckets_size = 0 < table_size    *)
(* and buckets[hash] is an out-of-range access.  That undefined behaviour  *)
(* is a choice between the two outcomes builds produce: the process       *)
(* dies (`crashed`), or the access lands in the slot of the allocation     *)
(* the vector still holds (which Clear() left null).                       *)
(***************************************************************************)
EXTENDS Integers, Sequences, FiniteSets, TLC

VARIABLES
    buckets,        \* storage of std::vector<unique_ptr<Node>> buckets
    buckets_size,   \* buckets.size()
    table_size,     \* size_t table_size
    element_count,  \* size_t element_count
    load_refactor,  \* float load_refactor, as <<numerator, denominator>>
    crashed,        \* the process was killed by an out-of-range access
    inserted,       \* history: key -> value of its last Insert, 0 if none / removed
    last,           \* history: the last call and what it returned
    other,          \* a second HashTable object: <<>> until it is constructed
    calls,          \* number of calls made by a program that uses two tables
    stack,          \* a Stack<int> (src/stack/Stack.h)
    list,           \* a LinkedList<int> (src/linked_list/LinkedList.h)
    list_b,         \* a second LinkedList<int>: <<>> until it is constructed
    flist,          \* a ForwardList<int> (src/forward_list/ForwardList.h)
    tree            \* a BinaryTree<int> (src/binary_tree/BinaryTree.h)

vars == <<buckets, buckets_size, table_size, element_count, load_refactor,
          crashed, inserted, last, other, calls,
          stack, list, list_b, flist, tree>>

(* ------------------------------ bounds -------------------------------- *)
MaxKey == 3
MaxValue == 2
MaxInitSize == 2
MaxTableSize == 4
MaxCalls == 3
MaxElem == 3
MaxLen == 4

Keys == 0..MaxKey
Values == 1..MaxValue
\* load factors of (0, 1] that a float holds exactly
LoadFactors == {<<1, 2>>, <<3, 4>>, <<1, 1>>}

(* ------------------------------ results ------------------------------- *)
Returned(v) == [kind |-> "value", value |-> v]
Done == [kind |-> "void", value |-> 0]
KeyNotFound == [kind |-> "out_of_range", value |-> 0]
Undefined == [kind |-> "undefined", value |-> 0]
Bool(b) == [kind |-> "bool", value |-> IF b THEN 1 ELSE 0]
Call(op, k, v, r) == [op |-> op, key |-> k, value |-> v, res |-> r]

(* ------------------------------- chains ------------------------------- *)
Node(k, v) == [key |-> k, value |-> v]

EmptyBuckets(n) == [i \in 0..(n - 1) |-> <<>>]

\* index of the first node of chain c whose key is k, 0 if there is none
RECURSIVE FindFrom(_, _, _)
FindFrom(c, k, i) ==
    IF i > Len(c) THEN 0
    ELSE IF c[i].key = k THEN i
    ELSE FindFrom(c, k, i + 1)

Find(c, k) == FindFrom(c, k, 1)

RemoveAt(c, i) == SubSeq(c, 1, i - 1) \o SubSeq(c, i + 1, Len(c))

(* ---------------------------- HashFunction ---------------------------- *)
Hash(k) == k

HashFunction(k, ts) == Hash(k) % ts

(* ------------------------------- Resize ------------------------------- *)
\* the nodes of the vector's elements 0..n-1, in the order the loop of
\* Resize() visits them
RECURSIVE Visit(_, _)
Visit(b, n) == IF n = 0 THEN <<>> ELSE Visit(b, n - 1) \o b[n - 1]

\* the chain of new_buckets[j]: each visited node is pushed on the front of
\* the chain at HashFunction(key), which still reads the old table_size
RECURSIVE Rehash(_, _, _)
Rehash(nodes, j, ts) ==
    IF nodes = <<>> THEN <<>>
    ELSE IF HashFunction(Head(nodes).key, ts) = j
         THEN Rehash(Tail(nodes), j, ts) \o <<Head(nodes)>>
         ELSE Rehash(Tail(nodes), j, ts)

\* a relocation that stores each node without linking the chain behind it
ResizedBucketsOverwriting(b, bs, ts) ==
    [j \in 0..(2 * ts - 1) |->
        IF Rehash(Visit(b, bs), j, ts) = <<>> THEN <<>>
        ELSE <<Head(Rehash(Visit(b, bs), j, ts))>>]

ResizedBuckets(b, bs, ts) ==
    [j \in 0..(2 * ts - 1) |-> Rehash(Visit(b, bs), j, ts)]

(* ------------------------------ queries ------------------------------- *)
\* what Get / ContainsKey / Remove / Insert find in the chain at slot h
Lookup(c, k) == IF Find(c, k) = 0 THEN KeyNotFound ELSE Returned(c[Find(c, k)].value)

InRange(k, bs, ts) == HashFunction(k, ts) < bs

\* hash % table_size divides by zero on a table_size of 0
GetOf(b, bs, ts, k) ==
    IF ts = 0 THEN Undefined
    ELSE IF InRange(k, bs, ts) THEN Lookup(b[HashFunction(k, ts)], k) ELSE Undefined

ContainsKeyOf(b, bs, ts, k) ==
    IF ts = 0 THEN Undefined
    ELSE IF InRange(k, bs, ts) THEN Bool(Find(b[HashFunction(k, ts)], k) # 0)
    ELSE Undefined

GetNow(k) == GetOf(buckets, buckets_size, table_size, k)
ContainsKeyNow(k) == ContainsKeyOf(buckets, buckets_size, table_size, k)
Size == element_count
IsEmpty == element_count = 0

(* ------------------------- the other containers ----------------------- *)
Elems == 1..MaxElem

\* Stack(): head(nullptr), tail(nullptr), size(0); `nodes` are the elements
\* of the nodes from head to tail
NewStack == [nodes |-> <<>>, size |-> 0]

\* LinkedList(): head(nullptr), tail(nullptr), size(0); `nodes` are the
\* elements from head along next, `tail` is the position of the node tail
\* points to (0: nullptr), `freed` says that the nodes were deleted while
\* head and tail still point to them
NewLinkedList == [nodes |-> <<>>, tail |-> 0, size |-> 0, freed |-> FALSE]

\* ForwardList(): head(nullptr), tail(nullptr), size(0); `tail` is the
\* position of the node tail points to, 0 for nullptr, Freed or Detached
NewForwardList == [nodes |-> <<>>, tail |-> 0, size |-> 0]

\* BinaryTree(): root(nullptr); a tree is <<>> or <<data, left, right>>
NewBinaryTree == <<>>

\* a program that uses the hash table: the other objects stay as constructed
NoContainers ==
    /\ stack = NewStack
    /\ list = NewLinkedList
    /\ list_b = <<>>
    /\ flist = NewForwardList
    /\ tree = NewBinaryTree

ContainersUnchanged == UNCHANGED <<stack, list, list_b, flist, tree>>

(* -------------------------------- Init -------------------------------- *)
Init ==
    /\ table_size \in 1..MaxInitSize
    /\ load_refactor \in LoadFactors
    /\ buckets = EmptyBuckets(table_size)
    /\ buckets_size = table_size
    /\ element_count = 0
    /\ crashed = FALSE
    /\ inserted = [k \in Keys |-> 0]
    /\ last = Call("HashTable", 0, 0, Done)
    /\ other = <<>>
    /\ calls = 0
    /\ NoContainers

(* ------------------------------- Insert ------------------------------- *)
NeedsResize == element_count * load_refactor[2] >= table_size * load_refactor[1]

\* a placement that links the new node behind the last node of the chain
PlacedAtTail(c, k, v) ==
    IF Find(c, k) # 0 THEN [c EXCEPT ![Find(c, k)].value = v]
    ELSE Append(c, Node(k, v))

\* the chain after the scan-and-place part of Insert
Placed(c, k, v) ==
    IF Find(c, k) # 0 THEN [c EXCEPT ![Find(c, k)].value = v]
    ELSE <<Node(k, v)>> \o c

Crash(op, k, v) ==
    /\ crashed' = TRUE
    /\ last' = Call(op, k, v, Undefined)
    /\ UNCHANGED <<buckets, buckets_size, table_size, element_count,
                   load_refactor, inserted>>

InsertPlace(b, bs, ts, k, v) ==
    LET h == HashFunction(k, ts) IN
    /\ buckets' = [b EXCEPT ![h] = Placed(b[h], k, v)]
    /\ buckets_size' = bs
    /\ table_size' = ts
    /\ element_count' = IF Find(b[h], k) # 0 THEN element_count ELSE element_count + 1
    /\ inserted' = [inserted EXCEPT ![k] = v]
    /\ last' = Call("Insert", k, v, Done)
    /\ UNCHANGED <<load_refactor, crashed>>

Insert(k, v) ==
    /\ ~crashed
    /\ IF NeedsResize
       THEN /\ 2 * table_size <= MaxTableSize
            /\ IF table_size = 0
               THEN Crash("Insert", k, v)
               ELSE InsertPlace(ResizedBuckets(buckets, buckets_size, table_size),
                                2 * table_size, 2 * table_size, k, v)
       ELSE IF InRange(k, buckets_size, table_size)
       THEN InsertPlace(buckets, buckets_size, table_size, k, v)
       ELSE \/ Crash("Insert", k, v)
            \/ InsertPlace(buckets, buckets_size, table_size, k, v)

(* -------------------------------- Get --------------------------------- *)
Answer(op, k, r) ==
    /\ last' = Call(op, k, 0, r)
    /\ UNCHANGED <<buckets, buckets_size, table_size, element_count,
                   load_refactor, crashed, inserted>>

Get(k) ==
    /\ ~crashed
    /\ IF table_size = 0
       THEN Crash("Get", k, 0)
       ELSE IF InRange(k, buckets_size, table_size)
       THEN Answer("Get", k, GetNow(k))
       ELSE \/ Crash("Get", k, 0)
            \/ Answer("Get", k, Lookup(buckets[HashFunction(k, table_size)], k))

(* ----------------------------- ContainsKey ---------------------------- *)
ContainsKey(k) ==
    /\ ~crashed
    /\ IF table_size = 0
       THEN Crash("ContainsKey", k, 0)
       ELSE IF InRange(k, buckets_size, table_size)
       THEN Answer("ContainsKey", k, ContainsKeyNow(k))
       ELSE \/ Crash("ContainsKey", k, 0)
            \/ Answer("ContainsKey", k,
                      Bool(Find(buckets[HashFunction(k, table_size)], k) # 0))

(* ------------------------------- Remove ------------------------------- *)
RemoveFrom(k) ==
    LET h == HashFunction(k, table_size)
        i == Find(buckets[h], k) IN
    IF i = 0
    THEN Answer("Remove", k, KeyNotFound)
    ELSE /\ buckets' = [buckets EXCEPT ![h] = RemoveAt(buckets[h], i)]
         /\ element_count' = element_count - 1
         /\ inserted' = [inserted EXCEPT ![k] = 0]
         /\ last' = Call("Remove", k, 0, Done)
         /\ UNCHANGED <<buckets_size, table_size, load_refactor, crashed>>

Remove(k) ==
    /\ ~crashed
    /\ IF table_size = 0
       THEN Crash("Remove", k, 0)
       ELSE IF InRange(k, buckets_size, table_size)
       THEN RemoveFrom(k)
       ELSE \/ Crash("Remove", k, 0)
            \/ RemoveFrom(k)

(* -------------------------------- Clear ------------------------------- *)
\* a Clear that goes back to a single slot
ClearShrinking ==
    /\ ~crashed
    /\ buckets' = EmptyBuckets(1)
    /\ buckets_size' = 1
    /\ table_size' = 1
    /\ element_count' = 0
    /\ inserted' = [k \in Keys |-> 0]
    /\ last' = Call("Clear", 0, 0, Done)
    /\ UNCHANGED <<load_refactor, crashed>>

Clear ==
    /\ ~crashed
    /\ buckets' = EmptyBuckets(table_size)
    /\ buckets_size' = 0
    /\ element_count' = 0
    /\ inserted' = [k \in Keys |-> 0]
    /\ last' = Call("Clear", 0, 0, Done)
    /\ UNCHANGED <<table_size, load_refactor, crashed>>

(* ------------------------------- Resize ------------------------------- *)
Resize ==
    /\ ~crashed
    /\ 2 * table_size <= MaxTableSize
    /\ buckets' = ResizedBuckets(buckets, buckets_size, table_size)
    /\ buckets_size' = 2 * table_size
    /\ table_size' = 2 * table_size
    /\ last' = Call("Resize", 0, 0, Done)
    /\ UNCHANGED <<element_count, load_refactor, crashed, inserted>>

(* -------------------------------- Next -------------------------------- *)
\* a program with one table: no second object, no call count
Alone == UNCHANGED <<other, calls>> /\ ContainersUnchanged

Next ==
    \/ \E k \in Keys, v \in Values : Insert(k, v) /\ Alone
    \/ \E k \in Keys : Get(k) /\ Alone
    \/ \E k \in Keys : ContainsKey(k) /\ Alone
    \/ \E k \in Keys : Remove(k) /\ Alone
    \/ Clear /\ Alone
    \/ Resize /\ Alone

Spec == Init /\ [][Next]_vars

\* a freshly constructed table on which only Insert is called
NextInserts == \E k \in Keys, v \in Values : Insert(k, v) /\ Alone

SpecInserts == Init /\ [][NextInserts]_vars

(* ---------------------------- construction ---------------------------- *)
\* the options a caller may pass: the constructor takes any size_t and float
CapacityOptions == 0..MaxInitSize
LoadFactorOptions == LoadFactors \cup {<<0, 1>>, <<3, 2>>, <<-1, 2>>}

ValidOptions(n, lf) == n >= 1 /\ lf[1] > 0 /\ lf[1] <= lf[2]

\* HashTable(table_size, load_factor) with any options
InitConstruct ==
    /\ table_size \in CapacityOptions
    /\ load_refactor \in LoadFactorOptions
    /\ buckets = EmptyBuckets(table_size)
    /\ buckets_size = table_size
    /\ element_count = 0
    /\ crashed = FALSE
    /\ inserted = [k \in Keys |-> 0]
    /\ last = Call("HashTable", 0, 0, Done)
    /\ other = <<>>
    /\ calls = 0
    /\ NoContainers

SpecConstruct == InitConstruct /\ [][NextInserts]_vars

(* --------------------------- two tables ------------------------------- *)
\* A table as a value: the fields of the table the variables describe (the
\* source `a` of every copy and move), and those of the second object `b`.
Table(b, bs, ts, n, lf) ==
    [buckets |-> b, buckets_size |-> bs, table_size |-> ts,
     element_count |-> n, load_refactor |-> lf]

This == Table(buckets, buckets_size, table_size, element_count, load_refactor)

Other == other[1]

\* what the move constructor and move assignment leave in their source
MovedFrom == Table(EmptyBuckets(0), 0, 0, 0, <<0, 1>>)

SetThis(t) ==
    /\ buckets' = t.buckets
    /\ buckets_size' = t.buckets_size
    /\ table_size' = t.table_size
    /\ element_count' = t.element_count
    /\ load_refactor' = t.load_refactor

\* one more call of a program that uses two tables
Counted == calls < MaxCalls /\ calls' = calls + 1 /\ ContainersUnchanged

(* ----------------------------- CopyBuckets ---------------------------- *)
\* the chain CopyBuckets builds in the destination from source chain c: the
\* copy of the first node only, because `previous` is set to the head of the
\* SOURCE chain and every later copy is linked behind that source node
CopiedChain(c) == IF c = <<>> THEN <<>> ELSE <<Head(c)>>

\* the source chain afterwards: its head, then the copy of its second node
\* (the assignment to previous->next released the rest of the chain)
SourceChainAfter(c) == IF Len(c) <= 2 THEN c ELSE SubSeq(c, 1, 2)

SourceAfterCopy(t) ==
    [t EXCEPT !.buckets = [i \in DOMAIN t.buckets |-> SourceChainAfter(t.buckets[i])]]

\* CopyBuckets reads hash_table.buckets[i] for every i < table_size: out of
\* range when the source was cleared
SourceUnreadable(t) == t.buckets_size < t.table_size

\* with a source chain of 2 or more nodes the loop goes on from a released
\* node (current->next of the node just freed)
ReadsReleasedNode(t) == \E i \in DOMAIN t.buckets : Len(t.buckets[i]) >= 2

\* slots of the destination that CopyBuckets assigns
Assigned(t) == {i \in DOMAIN t.buckets : t.buckets[i] # <<>>}

CrashIn(op) ==
    /\ crashed' = TRUE
    /\ last' = Call(op, 0, 0, Undefined)
    /\ UNCHANGED <<buckets, buckets_size, table_size, element_count,
                   load_refactor, inserted, other>>

(* -------------------------- copy constructor -------------------------- *)
\* HashTable b(a)
CopyConstructed(t) ==
    Table([i \in DOMAIN t.buckets |-> CopiedChain(t.buckets[i])],
          t.table_size, t.table_size, t.element_count, t.load_refactor)

CopyConstructDone ==
    /\ other' = <<CopyConstructed(This)>>
    /\ SetThis(SourceAfterCopy(This))
    /\ last' = Call("CopyConstruct", 0, 0, Done)
    /\ UNCHANGED <<crashed, inserted>>

CopyConstruct ==
    /\ ~crashed
    /\ other = <<>>
    /\ Counted
    /\ IF SourceUnreadable(This) \/ ReadsReleasedNode(This)
       THEN CrashIn("CopyConstruct") \/ CopyConstructDone
       ELSE CopyConstructDone

(* --------------------------- copy assignment -------------------------- *)
\* b = a: Clear() leaves b's vector empty, so every buckets[i] CopyBuckets
\* assigns is out of range; it lands in b's old allocation when i is below
\* the number of slots that allocation has, and past its end otherwise
CopyAssigned(d, t) ==
    Table([i \in DOMAIN d.buckets |->
              IF i \in DOMAIN t.buckets THEN CopiedChain(t.buckets[i]) ELSE <<>>],
          0, t.table_size, t.element_count, t.load_refactor)

CopyAssignDone ==
    /\ other' = <<CopyAssigned(Other, This)>>
    /\ SetThis(SourceAfterCopy(This))
    /\ last' = Call("CopyAssign", 0, 0, Done)
    /\ UNCHANGED <<crashed, inserted>>

CopyAssign ==
    /\ ~crashed
    /\ other # <<>>
    /\ Counted
    /\ IF Assigned(This) \ DOMAIN Other.buckets # {}
       THEN CrashIn("CopyAssign")
       ELSE IF \/ SourceUnreadable(This)
               \/ ReadsReleasedNode(This)
               \/ Assigned(This) # {}
       THEN CrashIn("CopyAssign") \/ CopyAssignDone
       ELSE CopyAssignDone

(* ------------------- move constructor and assignment ------------------ *)
\* HashTable b(std::move(a)) and b = std::move(a)
\* a move that transfers the buckets but not the count
MoveDoneLosingCount(op) ==
    /\ other' = <<[This EXCEPT !.element_count = 0]>>
    /\ SetThis(MovedFrom)
    /\ inserted' = [k \in Keys |-> 0]
    /\ last' = Call(op, 0, 0, Done)
    /\ UNCHANGED crashed

MoveDone(op) ==
    /\ other' = <<This>>
    /\ SetThis(MovedFrom)
    /\ inserted' = [k \in Keys |-> 0]
    /\ last' = Call(op, 0, 0, Done)
    /\ UNCHANGED crashed

MoveConstruct ==
    /\ ~crashed
    /\ other = <<>>
    /\ Counted
    /\ MoveDone("MoveConstruct")

MoveAssign ==
    /\ ~crashed
    /\ other # <<>>
    /\ Counted
    /\ MoveDone("MoveAssign")

(* ------------------------ calls on the second table ------------------- *)
NeedsResizeOf(t) ==
    t.element_count * t.load_refactor[2] >= t.table_size * t.load_refactor[1]

ResizedTable(t) ==
    Table(ResizedBuckets(t.buckets, t.buckets_size, t.table_size),
          2 * t.table_size, 2 * t.table_size, t.element_count, t.load_refactor)

PlacedIn(t, k, v) ==
    LET h == HashFunction(k, t.table_size) IN
    [t EXCEPT !.buckets[h] = Placed(t.buckets[h], k, v),
              !.element_count = IF Find(t.buckets[h], k) # 0 THEN @ ELSE @ + 1]

RemovedFrom(t, k) ==
    LET h == HashFunction(k, t.table_size) IN
    [t EXCEPT !.buckets[h] = RemoveAt(t.buckets[h], Find(t.buckets[h], k)),
              !.element_count = @ - 1]

OtherCrash(op, k, v) ==
    /\ crashed' = TRUE
    /\ last' = Call(op, k, v, Undefined)
    /\ UNCHANGED <<buckets, buckets_size, table_size, element_count,
                   load_refactor, inserted, other>>

OtherBecomes(t, op, k, v, r) ==
    /\ other' = <<t>>
    /\ last' = Call(op, k, v, r)
    /\ UNCHANGED <<buckets, buckets_size, table_size, element_count,
                   load_refactor, inserted, crashed>>

\* buckets[hash] of table t: in the vector, in its allocation past size(),
\* or past the allocation
Reach(t, k) ==
    LET h == HashFunction(k, t.table_size) IN
    IF h < t.buckets_size THEN "element"
    ELSE IF h \in DOMAIN t.buckets THEN "allocation"
    ELSE "outside"

\* b.Insert(k, v)
InsertOther(k, v) ==
    /\ ~crashed
    /\ other # <<>>
    /\ Counted
    /\ IF NeedsResizeOf(Other)
       THEN /\ 2 * Other.table_size <= MaxTableSize
            /\ IF Other.table_size = 0
               THEN OtherCrash("b.Insert", k, v)
               ELSE OtherBecomes(PlacedIn(ResizedTable(Other), k, v),
                                 "b.Insert", k, v, Done)
       ELSE CASE Reach(Other, k) = "element" ->
                    OtherBecomes(PlacedIn(Other, k, v), "b.Insert", k, v, Done)
              [] Reach(Other, k) = "allocation" ->
                    \/ OtherCrash("b.Insert", k, v)
                    \/ OtherBecomes(PlacedIn(Other, k, v), "b.Insert", k, v, Done)
              [] OTHER -> OtherCrash("b.Insert", k, v)

\* b.Remove(k)
RemoveOtherFrom(k) ==
    IF Find(Other.buckets[HashFunction(k, Other.table_size)], k) = 0
    THEN OtherBecomes(Other, "b.Remove", k, 0, KeyNotFound)
    ELSE OtherBecomes(RemovedFrom(Other, k), "b.Remove", k, 0, Done)

RemoveOther(k) ==
    /\ ~crashed
    /\ other # <<>>
    /\ Counted
    /\ IF Other.table_size = 0
       THEN OtherCrash("b.Remove", k, 0)
       ELSE CASE Reach(Other, k) = "element" -> RemoveOtherFrom(k)
              [] Reach(Other, k) = "allocation" ->
                    OtherCrash("b.Remove", k, 0) \/ RemoveOtherFrom(k)
              [] OTHER -> OtherCrash("b.Remove", k, 0)

\* a call on the first table in a program that uses two
OnThis(A) == A /\ Counted /\ other' = other

NextTwo ==
    \/ \E k \in Keys, v \in Values : OnThis(Insert(k, v))
    \/ \E k \in Keys : OnThis(Remove(k))
    \/ OnThis(Clear)
    \/ CopyConstruct
    \/ CopyAssign
    \/ MoveConstruct
    \/ MoveAssign
    \/ \E k \in Keys, v \in Values : InsertOther(k, v)
    \/ \E k \in Keys : RemoveOther(k)

SpecTwo == Init /\ [][NextTwo]_vars

(* ============================== Stack ================================= *)
\* a program that uses one of the other containers: the hash table is
\* constructed and never called
HashTableUnchanged ==
    UNCHANGED <<buckets, buckets_size, table_size, element_count,
                load_refactor, inserted, other, calls>>

InitContainers ==
    /\ table_size = 1
    /\ load_refactor = <<3, 4>>
    /\ buckets = EmptyBuckets(table_size)
    /\ buckets_size = table_size
    /\ element_count = 0
    /\ crashed = FALSE
    /\ inserted = [k \in Keys |-> 0]
    /\ last = Call("construct", 0, 0, Done)
    /\ other = <<>>
    /\ calls = 0
    /\ NoContainers

\* the call returned r
Returns(op, k, v, r) ==
    /\ last' = Call(op, k, v, r)
    /\ crashed' = crashed
    /\ HashTableUnchanged

\* the call dereferenced a null or dangling pointer and the process died
Dies(op, k, v) ==
    /\ last' = Call(op, k, v, Undefined)
    /\ crashed' = TRUE
    /\ HashTableUnchanged
    /\ ContainersUnchanged

Front(q) == SubSeq(q, 1, Len(q) - 1)

\* a Push that links the new node before head
PushAtHead(v) ==
    /\ ~crashed
    /\ stack.size < MaxLen
    /\ stack' = [nodes |-> <<v>> \o stack.nodes, size |-> stack.size + 1]
    /\ Returns("Push", v, 0, Done)
    /\ UNCHANGED <<list, list_b, flist, tree>>

\* void Push(const T &value)
Push(v) ==
    /\ ~crashed
    /\ stack.size < MaxLen
    /\ stack' = [nodes |-> IF stack.size = 0 THEN <<v>> ELSE Append(stack.nodes, v),
                 size |-> stack.size + 1]
    /\ Returns("Push", v, 0, Done)
    /\ UNCHANGED <<list, list_b, flist, tree>>

\* T Top(): tail->element, -1 when tail is nullptr
TopOf(st) == IF st.nodes = <<>> THEN -1 ELSE st.nodes[Len(st.nodes)]

Top ==
    /\ ~crashed
    /\ Returns("Top", 0, 0, Returned(TopOf(stack)))
    /\ UNCHANGED <<stack, list, list_b, flist, tree>>

\* void Pop()
Pop ==
    /\ ~crashed
    /\ stack' = IF stack.nodes = <<>> THEN stack
                ELSE [nodes |-> Front(stack.nodes), size |-> stack.size - 1]
    /\ Returns("Pop", 0, 0, Done)
    /\ UNCHANGED <<list, list_b, flist, tree>>

NextStack ==
    \/ \E v \in Elems : Push(v)
    \/ Top
    \/ Pop

SpecStack == InitContainers /\ [][NextStack]_vars

(* ============================ LinkedList ============================== *)
\* what a read of a deleted node gives
Garbage == 0

\* the call returns and leaves the list as l
ListBecomes(op, k, v, l) ==
    /\ list' = l
    /\ Returns(op, k, v, Done)
    /\ UNCHANGED <<stack, list_b, flist, tree>>

\* a call on a list whose nodes were deleted reads released memory
OnList(op, k, v, l) ==
    /\ ~crashed
    /\ IF list.freed
       THEN Dies(op, k, v) \/ ListBecomes(op, k, v, l)
       ELSE ListBecomes(op, k, v, l)

\* void PushFront(const T &value)
LinkedListPushFront(v) ==
    /\ Len(list.nodes) < MaxLen
    /\ OnList("PushFront", v, 0,
              [list EXCEPT !.nodes = IF list.size = 0 THEN <<v>> ELSE <<v>> \o @,
                           !.tail = IF list.size = 0 THEN 1 ELSE @ + 1,
                           !.size = @ + 1])

\* void PushBack(const T &value)
LinkedListPushBack(v) ==
    /\ Len(list.nodes) < MaxLen
    /\ OnList("PushBack", v, 0,
              [list EXCEPT !.nodes = IF list.size = 0 THEN <<v>> ELSE Append(@, v),
                           !.tail = IF list.size = 0 THEN 1 ELSE @ + 1,
                           !.size = @ + 1])

\* sequence q with v put behind 0-based position i
InsertedBehind(q, i, v) == SubSeq(q, 1, i + 1) \o <<v>> \o SubSeq(q, i + 2, Len(q))

\* sequence q with v put at 0-based position i
InsertedAt(q, i, v) == SubSeq(q, 1, i) \o <<v>> \o SubSeq(q, i + 1, Len(q))

\* void Insert(int index, const T &value)
LinkedListInsert(i, v) ==
    /\ Len(list.nodes) < MaxLen
    /\ OnList("Insert", i, v,
              IF i < 0 \/ i > list.size THEN list
              ELSE [list EXCEPT
                       !.nodes = IF @ = <<>> THEN <<v>>
                                 ELSE IF i = 0 THEN <<v>> \o @
                                 ELSE IF i = list.size THEN Append(@, v)
                                 ELSE InsertedAt(@, i, v),
                       !.tail = IF list.nodes = <<>> THEN 1
                                ELSE IF i = 0 \/ i = list.size THEN @ + 1
                                ELSE IF i < @ THEN @ + 1 ELSE @,
                       !.size = @ + 1])

\* PopHead(): head = head->next; head->previous = nullptr; delete temp
PopHead(l) == [l EXCEPT !.nodes = Tail(@), !.tail = @ - 1]

\* PopTail(): tail = tail->previous; tail->next = nullptr; delete current
PopTail(l) == [l EXCEPT !.nodes = Front(@), !.tail = @ - 1]

\* void PopFront(): with one node, PopHead() writes head->previous through
\* the null head
LinkedListPopFront ==
    IF list.nodes = <<>> THEN OnList("PopFront", 0, 0, list)
    ELSE IF Len(list.nodes) = 1 THEN ~crashed /\ Dies("PopFront", 0, 0)
    ELSE OnList("PopFront", 0, 0, [PopHead(list) EXCEPT !.size = @ - 1])

\* void PopBack(): with one node, PopTail() writes tail->next through the
\* null tail
LinkedListPopBack ==
    IF list.nodes = <<>> THEN OnList("PopBack", 0, 0, list)
    ELSE IF Len(list.nodes) = 1 THEN ~crashed /\ Dies("PopBack", 0, 0)
    ELSE OnList("PopBack", 0, 0, [PopTail(list) EXCEPT !.size = @ - 1])

\* void Remove(const T &value): unlinks the first node that holds value
Unlinked(l, p) ==
    IF p = 1
    THEN IF l.size = 1 THEN NewLinkedList ELSE [PopHead(l) EXCEPT !.size = @ - 1]
    ELSE IF p = l.tail THEN [PopTail(l) EXCEPT !.size = @ - 1]
    ELSE [l EXCEPT !.nodes = SubSeq(@, 1, p - 1) \o SubSeq(@, p + 1, Len(@)),
                   !.tail = @ - 1,
                   !.size = @ - 1]

FirstOf(q, v) == IF \E i \in 1..Len(q) : q[i] = v
                 THEN CHOOSE i \in 1..Len(q) : q[i] = v /\ \A j \in 1..(i - 1) : q[j] # v
                 ELSE 0

LinkedListRemove(v) ==
    LET p == FirstOf(list.nodes, v) IN
    IF p = 0 THEN OnList("Remove", v, 0, list)
    ELSE IF p = 1 /\ list.size # 1 /\ Len(list.nodes) = 1 THEN ~crashed /\ Dies("Remove", v, 0)
    ELSE OnList("Remove", v, 0, Unlinked(list, p))

\* void Clear()
LinkedListClear ==
    OnList("Clear", 0, 0, IF list.nodes = <<>> THEN list ELSE NewLinkedList)

\* what Copy(other) leaves in the destination: `otherCurrent` starts at the
\* next pointer of the NEW head node, which is null, so the loop never runs
\* and only the first element is copied; tail and size are not assigned
Copied(l, first) ==
    IF l.nodes = <<>> THEN NewLinkedList
    ELSE [nodes |-> <<first>>, tail |-> 0, size |-> 0, freed |-> FALSE]

\* the source after `LinkedList b(a)`: the constructor starts b at a's nodes
\* and calls Clear(), which deletes them; a still points to them
Released(l, q) == [l EXCEPT !.nodes = q, !.freed = TRUE]

GarbageNodes(l) == [i \in 1..Len(l.nodes) |-> Garbage]

CopyBecomes(op, b, l) ==
    /\ list_b' = <<b>>
    /\ list' = l
    /\ Returns(op, 0, 0, Done)
    /\ UNCHANGED <<stack, flist, tree>>

\* LinkedList b(a)
LinkedListCopyConstruct ==
    /\ ~crashed
    /\ list_b = <<>>
    /\ IF list.nodes = <<>>
       THEN CopyBecomes("CopyConstruct", [NewLinkedList EXCEPT !.size = list.size], list)
       ELSE \/ Dies("CopyConstruct", 0, 0)
            \/ \E first \in {Garbage, list.nodes[1]}, q \in {list.nodes, GarbageNodes(list)} :
                   CopyBecomes("CopyConstruct", Copied(list, first), Released(list, q))

\* b = a, with b default-constructed if there is no b yet
LinkedListCopyAssign ==
    /\ ~crashed
    /\ IF list.freed
       THEN \/ Dies("CopyAssign", 0, 0)
            \/ CopyBecomes("CopyAssign", Copied(list, list.nodes[1]), list)
       ELSE CopyBecomes("CopyAssign",
                        Copied(list, IF list.nodes = <<>> THEN Garbage ELSE list.nodes[1]),
                        list)

\* the calls that change one list
NextLinkedListAlone ==
    \/ \E v \in Elems : LinkedListPushFront(v)
    \/ \E v \in Elems : LinkedListPushBack(v)
    \/ \E i \in -1..(MaxLen + 1), v \in Elems : LinkedListInsert(i, v)
    \/ LinkedListPopFront
    \/ LinkedListPopBack
    \/ \E v \in Elems : LinkedListRemove(v)
    \/ LinkedListClear

SpecLinkedListAlone == InitContainers /\ [][NextLinkedListAlone]_vars

\* the same calls in a program that also copies the list
NextLinkedList ==
    \/ NextLinkedListAlone
    \/ LinkedListCopyConstruct
    \/ LinkedListCopyAssign

SpecLinkedList == InitContainers /\ [][NextLinkedList]_vars

(* ============================ ForwardList ============================= *)
\* flist.tail is nullptr (0), the position of a node of the list (1..Len),
\* a pointer to a deleted node, or a pointer to a node that is alive but
\* not reachable from head
Dangling == -1
Detached == -2

\* lowest value of the size field the model follows
MinSize == 0 - MaxLen

\* the call returns and leaves the list as l
ForwardListBecomes(op, k, v, l) ==
    /\ flist' = l
    /\ Returns(op, k, v, Done)
    /\ UNCHANGED <<stack, list, list_b, tree>>

\* tail after `new Node` gave the node at position p: the allocator may
\* hand out the chunk a dangling tail still points to
AfterNew(t, p) == IF t = Dangling THEN {Dangling, p} ELSE {t}

\* tail after the node at position p was unlinked and deleted without
\* tail being looked at
AfterDelete(t, p) ==
    IF t = p THEN Dangling
    ELSE IF t > p THEN t - 1
    ELSE t

\* void PushFront(const T &value): tail is never assigned
ForwardListPushFront(v) ==
    /\ ~crashed
    /\ Len(flist.nodes) < MaxLen
    /\ flist.size < MaxLen
    /\ \E t \in AfterNew(IF flist.tail >= 1 THEN flist.tail + 1 ELSE flist.tail, 1) :
           ForwardListBecomes("PushFront", v, 0,
               [nodes |-> <<v>> \o flist.nodes, tail |-> t, size |-> flist.size + 1])

\* void PushBack(const T &value)
ForwardListPushBack(v) ==
    /\ ~crashed
    /\ Len(flist.nodes) < MaxLen
    /\ flist.size < MaxLen
    /\ IF flist.nodes = <<>>
       THEN ForwardListBecomes("PushBack", v, 0,
                [nodes |-> <<v>>, tail |-> 1, size |-> flist.size + 1])
       ELSE IF flist.tail = 0
       THEN Dies("PushBack", v, 0)
       ELSE IF flist.tail >= 1
       THEN ForwardListBecomes("PushBack", v, 0,
                [nodes |-> Append(SubSeq(flist.nodes, 1, flist.tail), v),
                 tail |-> flist.tail + 1,
                 size |-> flist.size + 1])
       ELSE \/ flist.tail = Dangling /\ Dies("PushBack", v, 0)
            \/ ForwardListBecomes("PushBack", v, 0,
                   [flist EXCEPT !.tail = Detached, !.size = @ + 1])

\* void PopFront(): tail is never assigned
ForwardListPopFront ==
    /\ ~crashed
    /\ ForwardListBecomes("PopFront", 0, 0,
           IF flist.nodes = <<>> THEN flist
           ELSE [nodes |-> Tail(flist.nodes),
                 tail |-> AfterDelete(flist.tail, 1),
                 size |-> flist.size - 1])

\* void PopBack()
ForwardListPopBack ==
    /\ ~crashed
    /\ IF flist.nodes = <<>>
       THEN ForwardListBecomes("PopBack", 0, 0, flist)
       ELSE IF flist.tail = 1
       THEN ForwardListBecomes("PopBack", 0, 0,
                [nodes |-> <<>>, tail |-> 0, size |-> flist.size - 1])
       ELSE IF Len(flist.nodes) = 1
       THEN Dies("PopBack", 0, 0)
       ELSE ForwardListBecomes("PopBack", 0, 0,
                [nodes |-> Front(flist.nodes),
                 tail |-> Len(flist.nodes) - 1,
                 size |-> flist.size - 1])

\* void Erase(const T &value)
ForwardListErase(v) ==
    /\ ~crashed
    /\ ForwardListBecomes("Erase", v, 0,
           IF FirstOf(flist.nodes, v) = 0 THEN flist
           ELSE LET p == FirstOf(flist.nodes, v)
                IN  [nodes |-> SubSeq(flist.nodes, 1, p - 1)
                                   \o SubSeq(flist.nodes, p + 1, Len(flist.nodes)),
                     tail |-> IF p = 1
                              THEN IF Len(flist.nodes) = 1 THEN 0
                                   ELSE AfterDelete(flist.tail, 1)
                              ELSE IF flist.tail = p THEN p - 1
                                   ELSE AfterDelete(flist.tail, p),
                     size |-> flist.size - 1])

\* Clear(): returns at once when head is null; otherwise deletes the nodes
\* and sets size to 0; tail is never assigned
Cleared(l) ==
    IF l.nodes = <<>> THEN l
    ELSE [nodes |-> <<>>,
          tail |-> IF l.tail >= 1 THEN Dangling ELSE l.tail,
          size |-> 0]

ForwardListClear ==
    /\ ~crashed
    /\ ForwardListBecomes("Clear", 0, 0, Cleared(flist))

\* the lists a program can assign from
Sources == UNION {[1..n -> Elems] : n \in 0..MaxLen}

\* operator=(const ForwardList &other) with other holding src: Clear(), then
\* Copy(other), which builds the nodes and assigns neither tail nor size
ForwardListCopyAssign(src) ==
    /\ ~crashed
    /\ flist.size >= MinSize
    /\ \E t \in {Cleared(flist).tail}
                    \cup (IF Cleared(flist).tail = Dangling THEN 1..Len(src) ELSE {}) :
           ForwardListBecomes("CopyAssign", Len(src), 0,
               [nodes |-> src, tail |-> t, size |-> Cleared(flist).size])

NextForwardListAlone ==
    \/ \E v \in Elems : ForwardListPushFront(v)
    \/ \E v \in Elems : ForwardListPushBack(v)
    \/ ForwardListPopFront
    \/ ForwardListPopBack
    \/ \E v \in Elems : ForwardListErase(v)

SpecForwardListAlone == InitContainers /\ [][NextForwardListAlone]_vars

NextForwardList ==
    \/ NextForwardListAlone
    \/ ForwardListClear
    \/ \E src \in Sources : ForwardListCopyAssign(src)

SpecForwardList == InitContainers /\ [][NextForwardList]_vars

(* ============================ BinaryTree ============================== *)
\* a tree is <<>> (nullptr) or <<data, left, right>>
TreeElems == 0..MaxElem

TreeNode(data, left, right) == <<data, left, right>>

\* int Size(Node *node) const
RECURSIVE SizeOf(_)
SizeOf(node) ==
    IF node = <<>> THEN 0 ELSE SizeOf(node[2]) + 1 + SizeOf(node[3])

\* InOrder(Node *node): left subtree, data, right subtree
RECURSIVE InOrder(_)
InOrder(node) ==
    IF node = <<>> THEN <<>>
    ELSE InOrder(node[2]) \o <<node[1]>> \o InOrder(node[3])

\* a FindMinimum that does not walk to the left
FindMinimumNoWalk(node) == node[1]

\* Node *FindMinimum(Node *node), called with a node that is not null: the
\* data of the leftmost node
RECURSIVE FindMinimum(_)
FindMinimum(node) ==
    IF node[2] # <<>> THEN FindMinimum(node[2]) ELSE node[1]

\* Node *Delete(Node *node, const T &element)
RECURSIVE Delete(_, _)
Delete(node, element) ==
    IF node = <<>> THEN node
    ELSE IF element > node[1] THEN TreeNode(node[1], node[2], Delete(node[3], element))
    ELSE IF element < node[1] THEN TreeNode(node[1], Delete(node[2], element), node[3])
    ELSE IF node[2] = <<>> /\ node[3] = <<>> THEN <<>>
    ELSE IF node[2] = <<>> THEN node[3]
    ELSE IF node[3] = <<>> THEN node[2]
    ELSE LET temp == FindMinimum(node[3])
         IN  TreeNode(temp, node[2], Delete(node[3], temp))

\* the loop of Insert from `current`: one iteration tests equality, then
\* `element > data` and, on the node reached by that test, `element < data`
RECURSIVE InsertFrom(_, _)
InsertFrom(current, element) ==
    IF current[1] = element THEN current
    ELSE IF element > current[1]
    THEN IF current[3] = <<>>
         THEN TreeNode(current[1], current[2], TreeNode(element, <<>>, <<>>))
         ELSE LET right == current[3]
              IN  IF element < right[1]
                  THEN IF right[2] = <<>>
                       THEN TreeNode(current[1], current[2],
                                 TreeNode(right[1], TreeNode(element, <<>>, <<>>), right[3]))
                       ELSE TreeNode(current[1], current[2],
                                 TreeNode(right[1], InsertFrom(right[2], element), right[3]))
                  ELSE TreeNode(current[1], current[2], InsertFrom(right, element))
    ELSE IF current[2] = <<>>
         THEN TreeNode(current[1], TreeNode(element, <<>>, <<>>), current[3])
         ELSE TreeNode(current[1], InsertFrom(current[2], element), current[3])

TreeBecomes(op, k, r, t) ==
    /\ tree' = t
    /\ Returns(op, k, 0, r)
    /\ UNCHANGED <<stack, list, list_b, flist>>

\* root after Clear() on a tree that had nodes: RemoveSubTree deleted every
\* node and root was not assigned, so it points to the deleted root node
ReleasedRoot == <<Garbage>>

\* a call that follows root into the deleted nodes: the process dies, or the
\* call returns one of `results` and leaves one of `trees`
ReadsReleased(op, k, results, trees) ==
    \/ Dies(op, k, 0)
    \/ \E r \in results, t \in trees : TreeBecomes(op, k, r, t)

\* void Insert(const T &element)
BinaryTreeInsert(element) ==
    /\ ~crashed
    /\ IF tree = ReleasedRoot
       THEN ReadsReleased("Insert", element, {Done},
                          {ReleasedRoot, TreeNode(element, <<>>, <<>>)})
       ELSE TreeBecomes("Insert", element, Done,
                        IF tree = <<>> THEN TreeNode(element, <<>>, <<>>)
                        ELSE InsertFrom(tree, element))

\* void Remove(const T &element)
BinaryTreeRemove(element) ==
    /\ ~crashed
    /\ IF tree = ReleasedRoot
       THEN ReadsReleased("Remove", element, {Done}, {ReleasedRoot})
       ELSE TreeBecomes("Remove", element, Done, Delete(tree, element))

\* int Size() const
BinaryTreeSize ==
    /\ ~crashed
    /\ IF tree = ReleasedRoot
       THEN ReadsReleased("Size", 0, {Returned(n) : n \in 1..(MaxElem + 1)}, {ReleasedRoot})
       ELSE TreeBecomes("Size", 0, Returned(SizeOf(tree)), tree)

NextBinaryTree ==
    \/ \E element \in TreeElems : BinaryTreeInsert(element)
    \/ \E element \in TreeElems : BinaryTreeRemove(element)
    \/ BinaryTreeSize

SpecBinaryTree == InitContainers /\ [][NextBinaryTree]_vars

\* void Clear(): RemoveSubTree(root), and nothing else
BinaryTreeClear ==
    /\ ~crashed
    /\ IF tree = ReleasedRoot
       THEN ReadsReleased("Clear", 0, {Done}, {ReleasedRoot})
       ELSE TreeBecomes("Clear", 0, Done, IF tree = <<>> THEN <<>> ELSE ReleasedRoot)

\* bool IsEmpty(): root == nullptr
BinaryTreeIsEmpty ==
    /\ ~crashed
    /\ TreeBecomes("IsEmpty", 0, Bool(tree = <<>>), tree)

\* std::runtime_error("The tree is empty.") and ("Element not found.")
TreeIsEmpty == [kind |-> "runtime_error", value |-> 0]
ElementNotFound == [kind |-> "runtime_error", value |-> 1]

\* the loop of FindElement from `current`
RECURSIVE FindElementFrom(_, _)
FindElementFrom(current, element) ==
    IF current = <<>> THEN ElementNotFound
    ELSE IF current[1] = element THEN Returned(element)
    ELSE IF element > current[1] THEN FindElementFrom(current[3], element)
    ELSE FindElementFrom(current[2], element)

\* the loop of FindMaxElement: follow right until it is null
RECURSIVE Rightmost(_)
Rightmost(current) ==
    IF current[3] # <<>> THEN Rightmost(current[3]) ELSE current[1]

\* the loop of FindMinElement: follow left until it is null
RECURSIVE Leftmost(_)
Leftmost(current) ==
    IF current[2] # <<>> THEN Leftmost(current[2]) ELSE current[1]

\* a lookup: throws on a null root, otherwise returns `found`
TreeLookup(op, k, garbage, found) ==
    /\ ~crashed
    /\ IF tree = ReleasedRoot
       THEN ReadsReleased(op, k, garbage, {ReleasedRoot})
       ELSE TreeBecomes(op, k, IF tree = <<>> THEN TreeIsEmpty ELSE found, tree)

\* const T &FindElement(const T &element)
BinaryTreeFindElement(element) ==
    TreeLookup("FindElement", element, {Returned(element), ElementNotFound},
           FindElementFrom(tree, element))

\* const T &FindMaxElement()
BinaryTreeFindMaxElement ==
    TreeLookup("FindMaxElement", 0, {Returned(Garbage)}, Returned(Rightmost(tree)))

\* const T &FindMinElement()
BinaryTreeFindMinElement ==
    TreeLookup("FindMinElement", 0, {Returned(Garbage)}, Returned(Leftmost(tree)))

NextBinaryTreeLookups ==
    \/ NextBinaryTree
    \/ \E element \in TreeElems : BinaryTreeFindElement(element)
    \/ BinaryTreeFindMaxElement
    \/ BinaryTreeFindMinElement

SpecBinaryTreeLookups == InitContainers /\ [][NextBinaryTreeLookups]_vars

NextBinaryTreeAll ==
    \/ NextBinaryTreeLookups
    \/ BinaryTreeClear
    \/ BinaryTreeIsEmpty

SpecBinaryTreeAll == InitContainers /\ [][NextBinaryTreeAll]_vars

(* ------------------------- what the table holds ------------------------ *)
\* the key/value pairs of chain c
PairsOf(c) == {c[i] : i \in 1..Len(c)}

Slots == 0..(table_size - 1)

\* the keys of the nodes of chain c
KeysOf(c) == {c[i].key : i \in 1..Len(c)}

\* the keys stored in some chain
StoredKeys == UNION {KeysOf(buckets[i]) : i \in Slots}

\* the number of nodes over all chains
RECURSIVE NodesUpTo(_)
NodesUpTo(n) == IF n = 0 THEN 0 ELSE NodesUpTo(n - 1) + Len(buckets[n - 1])

NodeCount == NodesUpTo(table_size)

\* the keys Insert has been called with and Remove / Clear have not taken out
InsertedKeys == {k \in Keys : inserted[k] # 0}

\* an Insert(k, v) call that returned
Inserts(k, v) == Insert(k, v) /\ ~crashed'

(* ------------------------------- claims ------------------------------- *)

\* C1: after an Insert that triggers growth, every key inserted earlier and
\* not removed still has Get return the value it had before the resize and
\* ContainsKey true, and the resize step itself leaves the count alone (the
\* count moves by at most the Insert's own node).
C1_ResizePreservesContents ==
    [][/\ \A k \in Keys, v \in Values :
             (NeedsResize /\ Inserts(k, v)) =>
                 /\ \A j \in InsertedKeys \ {k} :
                       /\ GetNow(j).kind = "value" => GetNow(j)' = GetNow(j)
                       /\ ContainsKeyNow(j)' = Bool(TRUE)
                 /\ element_count' \in {element_count, element_count + 1}
       /\ Resize => element_count' = element_count
      ]_vars

\* C2: after any sequence of Insert calls on a fresh table, Size() is the
\* number of distinct keys inserted and Get(k) returns the value of the last
\* Insert of each such key k.
C2_InsertSequence ==
    /\ Size = Cardinality(InsertedKeys)
    /\ \A k \in InsertedKeys : GetNow(k) = Returned(inserted[k])

\* C3: from any table state, Insert(k, v) returns and immediately afterwards
\* Get(k) returns v and ContainsKey(k) is true.
C3_InsertThenGet ==
    [][\A k \in Keys, v \in Values :
          Insert(k, v) =>
              /\ ~crashed'
              /\ GetNow(k)' = Returned(v)
              /\ ContainsKeyNow(k)' = Bool(TRUE)
      ]_vars

\* C4: after any Insert completes, count <= capacity * maxLoadFactor.
C4_LoadFactorBound ==
    [][\A k \in Keys, v \in Values :
          Inserts(k, v) =>
              element_count' * load_refactor[2]' <= table_size' * load_refactor[1]'
      ]_vars

\* C5: in every reachable state Size() is the number of distinct keys stored
\* in the chains, and IsEmpty() is true exactly when no key is stored.
C5_CountIsStoredKeys ==
    /\ Size = Cardinality(StoredKeys)
    /\ IsEmpty <=> StoredKeys = {}

\* C6: in every reachable state no two Entries of the table have an equal key.
C6_KeyUniqueness == NodeCount = Cardinality(StoredKeys)

\* C7: between public operations every Entry in the chain at bucket index i
\* satisfies hash(key) mod capacity = i.
C7_ChainPlacement ==
    \A i \in Slots : \A k \in KeysOf(buckets[i]) : HashFunction(k, table_size) = i

\* C8: Insert resizes, before placing the entry, exactly when
\* count + 1 > capacity * maxLoad holds on entry, and the capacity is then
\* doubled; with capacity 2 and load factor 0.75, Insert(a, 1) keeps capacity
\* 2 with count 1 and the following Insert(b, 2) ends with capacity 4,
\* count 2, Get(a) = 1 and Get(b) = 2.
C8_GrowthTrigger ==
    [][\A k \in Keys, v \in Values :
          Inserts(k, v) =>
              /\ table_size' =
                    IF (element_count + 1) * load_refactor[2] > table_size * load_refactor[1]
                    THEN 2 * table_size ELSE table_size
              /\ \A a \in Keys \ {k}, w \in Values :
                    ( /\ table_size = 2
                      /\ load_refactor = <<3, 4>>
                      /\ element_count = 1
                      /\ last = Call("Insert", a, w, Done)
                      /\ InsertedKeys = {a} )
                    => /\ table_size' = 4
                       /\ element_count' = 2
                       /\ GetNow(a)' = Returned(w)
                       /\ GetNow(k)' = Returned(v)
      ]_vars

\* C9: Insert(k, v1) followed by Insert(k, v2) gives Get(k) = v2, and the
\* second call leaves the count unchanged and creates no second Entry for k.
C9_IdempotentOverwrite ==
    [][\A k \in Keys, v2 \in Values :
          (last.op = "Insert" /\ last.key = k /\ Inserts(k, v2)) =>
              /\ GetNow(k)' = Returned(v2)
              /\ element_count' = element_count
              /\ NodeCount' = NodeCount
      ]_vars

\* C10: if key k is stored, Remove(k) unlinks exactly that Entry and
\* decrements the count by 1; afterwards Get(k) raises KeyNotFound and
\* ContainsKey(k) is false, and every other key keeps what Get returns.
C10_RemovePresent ==
    [][\A k \in Keys :
          (k \in StoredKeys /\ Remove(k) /\ ~crashed') =>
              /\ last'.res = Done
              /\ element_count' = element_count - 1
              /\ NodeCount' = NodeCount - 1
              /\ GetNow(k)' = KeyNotFound
              /\ ContainsKeyNow(k)' = Bool(FALSE)
              /\ \A j \in Keys \ {k} : GetNow(j)' = GetNow(j)
      ]_vars

\* the fields Get, ContainsKey and a failed Remove must leave alone
TableUnchanged ==
    UNCHANGED <<buckets, buckets_size, table_size, element_count, load_refactor>>

\* the values of the nodes with key k, over all chains
ValuesIn(c, k) == {c[n].value : n \in {m \in 1..Len(c) : c[m].key = k}}

StoredValues(k) == UNION {ValuesIn(buckets[i], k) : i \in Slots}

\* C11: Remove(k) on a table that holds no Entry for k (an empty table
\* included) fails with KeyNotFound and leaves buckets, capacity and count
\* exactly as they were.
C11_RemoveAbsent ==
    [][\A k \in Keys :
          (k \notin StoredKeys /\ Remove(k)) =>
              /\ last'.res = KeyNotFound
              /\ TableUnchanged
      ]_vars

\* C12: Get(k) returns the stored value when an Entry with key k exists and
\* fails with KeyNotFound when there is none; in both cases the table
\* (buckets, capacity, count) is unchanged.
C12_GetStored ==
    [][\A k \in Keys :
          Get(k) =>
              /\ k \in StoredKeys => \E v \in StoredValues(k) : last'.res = Returned(v)
              /\ k \notin StoredKeys => last'.res = KeyNotFound
              /\ TableUnchanged
      ]_vars

\* C13: ContainsKey(k) returns true exactly when Get(k) would succeed and
\* false otherwise; it has no error outcome and does not change the table.
C13_ContainsKeyAsGet ==
    [][\A k \in Keys :
          ContainsKey(k) =>
              /\ last'.res = Bool(GetNow(k).kind = "value")
              /\ ~crashed'
              /\ TableUnchanged
      ]_vars

\* C14: Insert(k, v) has no side effect on other keys: for every key j # k
\* Get(j) and ContainsKey(j) give the same result right before and right
\* after the call, also when the call resizes the table.
C14_InsertFrame ==
    [][\A k \in Keys, v \in Values :
          Inserts(k, v) =>
              \A j \in Keys \ {k} :
                  /\ GetNow(j)' = GetNow(j)
                  /\ ContainsKeyNow(j)' = ContainsKeyNow(j)
      ]_vars

\* C15: Clear leaves the table usable: the count is 0, capacity and load
\* factor are unchanged, the bucket array still has capacity slots, all
\* empty, ContainsKey is false for every key, and an Insert(k, v) that
\* follows succeeds with Get(k) = v afterwards.
C15_ClearUsable ==
    [][/\ Clear =>
              /\ element_count' = 0
              /\ table_size' = table_size
              /\ load_refactor' = load_refactor
              /\ buckets_size' = table_size'
              /\ \A i \in Slots' : buckets'[i] = <<>>
              /\ \A k \in Keys : ContainsKeyNow(k)' = Bool(FALSE)
        /\ \A k \in Keys, v \in Values :
              (last.op = "Clear" /\ Insert(k, v)) =>
                  /\ ~crashed'
                  /\ last'.res = Done
                  /\ GetNow(k)' = Returned(v)
      ]_vars

(* ------------------------ claims on two tables ------------------------ *)
GetIn(t, k) == GetOf(t.buckets, t.buckets_size, t.table_size, k)

ContainsKeyIn(t, k) == ContainsKeyOf(t.buckets, t.buckets_size, t.table_size, k)

\* what a client observes of table t: Size, and Get / ContainsKey of every key
Observed(t) ==
    [size |-> t.element_count,
     get |-> [k \in Keys |-> GetIn(t, k)],
     has |-> [k \in Keys |-> ContainsKeyIn(t, k)]]

\* capacity >= 1 and a bucket array of exactly capacity slots
CapacityHolds(t) == t.table_size >= 1 /\ t.buckets_size = t.table_size

Copies == {"CopyConstruct", "CopyAssign"}
Moves == {"MoveConstruct", "MoveAssign"}

\* C16: in every state reached through construction, Insert, Remove, Clear,
\* copy and move, both objects have capacity >= 1 and a bucket array of
\* exactly capacity slots.
C16_CapacityInvariant ==
    /\ CapacityHolds(This)
    /\ other # <<>> => CapacityHolds(Other)

C18_MovedFromUsable ==
    [][/\ (MoveConstruct \/ MoveAssign) =>
              /\ table_size' >= 1
              /\ element_count' = 0
              /\ \A k \in Keys : ContainsKeyNow(k)' = Bool(FALSE)
        /\ \A k \in Keys, v \in Values :
              (last.op \in Moves /\ Insert(k, v)) =>
                  /\ ~crashed'
                  /\ GetNow(k)' = Returned(v)
      ]_vars

\* C19: copy construction and copy assignment from a source whose bucket
\* array has capacity slots return with a destination of the source's
\* capacity, count and load factor, a bucket array of that capacity, and in
\* every bucket the same set of key/value pairs as the source's bucket, for
\* chains of any length.
C19_CopyEqual ==
    [][(CapacityHolds(This) /\ (CopyConstruct \/ CopyAssign)) =>
          /\ ~crashed'
          /\ Other'.table_size = table_size
          /\ Other'.element_count = element_count
          /\ Other'.load_refactor = load_refactor
          /\ Other'.buckets_size = table_size
          /\ \A i \in Slots : PairsOf(Other'.buckets[i]) = PairsOf(buckets[i])
      ]_vars

\* C20: once b is a copy of a, an Insert or Remove on b returns and leaves
\* what a client observes of a (Size, Get, ContainsKey) unchanged, and an
\* Insert or Remove on a leaves what a client observes of b unchanged.
C20_CopyIndependence ==
    [][\A k \in Keys, v \in Values :
          (last.op \in Copies /\ ~crashed) =>
              /\ (InsertOther(k, v) \/ RemoveOther(k)) =>
                     /\ ~crashed'
                     /\ Observed(This)' = Observed(This)
              /\ (Insert(k, v) \/ Remove(k)) => Observed(Other)' = Observed(Other)
      ]_vars

(* --------------------- construction and relocation -------------------- *)
\* C21: the constructor returns a table only for valid options (capacity
\* >= 1, load factor in (0, 1]); the table it returns has the given
\* capacity and load factor, that many slots, and count 0.
C21_ConstructionValidates ==
    last.op = "HashTable" =>
        /\ ValidOptions(table_size, load_refactor)
        /\ buckets_size = table_size
        /\ element_count = 0

Occurrences(s, x) == Cardinality({i \in 1..Len(s) : s[i] = x})

\* C23: Resize keeps the multiset of (key, value) entries held across all
\* buckets, and the count.
C23_RelocationLosesNothing ==
    [][last'.op = "Resize" =>
          /\ \A n \in PairsOf(Visit(buckets, buckets_size)) \cup PairsOf(Visit(buckets, buckets_size)') :
                 Occurrences(Visit(buckets, buckets_size)', n)
                     = Occurrences(Visit(buckets, buckets_size), n)
          /\ element_count' = element_count
      ]_vars

\* a Resize has relocated a chain of two or more nodes
C23_Witness ==
    /\ last.op = "Resize"
    /\ ~crashed
    /\ \E i \in Slots : Len(buckets[i]) >= 2

(* ------------------------------- Stack -------------------------------- *)
\* C24: Stack is LIFO: Push(v) puts v on top of the elements already there,
\* Top() returns the element pushed last and not yet popped, Pop() removes
\* exactly that element, Size() is the number of elements on the stack, and
\* Pop() on an empty stack changes nothing.
C24_StackLifo ==
    [][/\ \A v \in Elems :
              Push(v) =>
                  /\ stack'.nodes = Append(stack.nodes, v)
                  /\ TopOf(stack') = v
       /\ Pop =>
              IF stack.nodes = <<>> THEN stack' = stack
              ELSE /\ stack'.nodes = Front(stack.nodes)
                   /\ stack'.nodes # <<>> => TopOf(stack') = stack.nodes[Len(stack.nodes) - 1]
       /\ stack'.size = Len(stack'.nodes)
      ]_vars

\* a Pop has uncovered an element pushed before the popped one
C24_Witness ==
    /\ last.op = "Pop"
    /\ Len(stack.nodes) >= 2
    /\ stack.nodes[1] # stack.nodes[2]

(* ----------------------------- LinkedList ----------------------------- *)
\* C25: PopFront() removes the first and PopBack() the last element of
\* every non-empty list, a list of exactly one element included (it becomes
\* empty: tail null, Size() 0); the other elements keep their order and
\* Size() decreases by 1; on an empty list both calls change nothing.
C25_PopEnds ==
    [][/\ LinkedListPopFront =>
              IF list.nodes = <<>> THEN list' = list
              ELSE /\ ~crashed'
                   /\ list'.nodes = Tail(list.nodes)
                   /\ list'.size = list.size - 1
                   /\ list'.tail = Len(list'.nodes)
       /\ LinkedListPopBack =>
              IF list.nodes = <<>> THEN list' = list
              ELSE /\ ~crashed'
                   /\ list'.nodes = Front(list.nodes)
                   /\ list'.size = list.size - 1
                   /\ list'.tail = Len(list'.nodes)
      ]_vars

\* C26: Insert(index, value) with 0 <= index <= Size() returns with value
\* at position index, the former elements in their order before and behind
\* it, and Size() one larger; with any other index the list is unchanged.
C26_InsertAtIndex ==
    [][\A i \in -1..(MaxLen + 1), v \in Elems :
          LinkedListInsert(i, v) =>
              /\ ~crashed'
              /\ IF 0 <= i /\ i <= list.size
                 THEN /\ Len(list'.nodes) = Len(list.nodes) + 1
                      /\ list'.nodes[i + 1] = v
                      /\ \A j \in 1..i : list'.nodes[j] = list.nodes[j]
                      /\ \A j \in (i + 1)..Len(list.nodes) : list'.nodes[j + 1] = list.nodes[j]
                      /\ list'.size = list.size + 1
                      /\ list'.size = Len(list'.nodes)
                 ELSE list' = list
      ]_vars

\* an Insert has put a value between two elements that differ from it
C26_Witness ==
    /\ last.op = "Insert"
    /\ ~crashed
    /\ last.key >= 1
    /\ last.key <= list.size - 2
    /\ list.nodes[last.key + 1] = last.value
    /\ list.nodes[last.key] # last.value
    /\ list.nodes[last.key + 2] # last.value

\* C27: copy construction and copy assignment from a list whose nodes are
\* alive return with a destination that has the source's elements in the
\* source's order and the source's Size(), and leave the source unchanged.
C27_ListCopy ==
    [][(~list.freed /\ (LinkedListCopyConstruct \/ LinkedListCopyAssign)) =>
          /\ ~crashed'
          /\ list_b'[1].nodes = list.nodes
          /\ list_b'[1].size = list.size
          /\ list' = list
      ]_vars

\* C28: ForwardList end insertion. After any sequence of PushFront,
\* PushBack, PopFront, PopBack and Erase calls, PushBack(v) returns with v
\* the last element and PushFront(v) with v the first, the other elements in
\* their order, and PopBack() on a non-empty list removes exactly the last.
C28_EndInsertion ==
    [][/\ \A v \in Elems :
              /\ ForwardListPushBack(v) => ~crashed' /\ flist'.nodes = Append(flist.nodes, v)
              /\ ForwardListPushFront(v) => ~crashed' /\ flist'.nodes = <<v>> \o flist.nodes
       /\ ForwardListPopBack /\ flist.nodes # <<>> =>
              ~crashed' /\ flist'.nodes = Front(flist.nodes)
      ]_vars

\* C29: ForwardList Size() is the number of nodes reachable from head, and
\* IsEmpty() is true exactly when Size() is 0, after any sequence of
\* PushFront, PushBack, PopFront, PopBack, Erase, Clear and copy assignment.
C29_SizeCountsNodes ==
    ~crashed =>
        /\ flist.size = Len(flist.nodes)
        /\ (flist.nodes = <<>>) <=> (flist.size = 0)

\* the elements a tree holds
ElementsOf(node) == {InOrder(node)[i] : i \in 1..Len(InOrder(node))}

\* every node's left subtree holds only smaller and its right subtree only
\* larger elements
RECURSIVE IsSearchTree(_)
IsSearchTree(node) ==
    \/ node = <<>>
    \/ /\ \A x \in ElementsOf(node[2]) : x < node[1]
       /\ \A x \in ElementsOf(node[3]) : x > node[1]
       /\ IsSearchTree(node[2])
       /\ IsSearchTree(node[3])

\* C30: BinaryTree keeps the search-tree order over Insert and Remove calls:
\* in-order traversal is strictly ascending, Insert adds its element to the
\* stored set and Remove takes it out, Size() is the size of that set, and
\* Remove of an absent element changes nothing.
C30_SearchTree ==
    [][/\ IsSearchTree(tree')
       /\ \A i \in 1..(Len(InOrder(tree')) - 1) : InOrder(tree')[i] < InOrder(tree')[i + 1]
       /\ last'.op = "Insert" => ElementsOf(tree') = ElementsOf(tree) \cup {last'.key}
       /\ last'.op = "Remove" =>
              /\ ElementsOf(tree') = ElementsOf(tree) \ {last'.key}
              /\ last'.key \notin ElementsOf(tree) => tree' = tree
       /\ last'.op = "Size" => last'.res = Returned(Cardinality(ElementsOf(tree)))
       /\ SizeOf(tree') = Cardinality(ElementsOf(tree'))
      ]_vars

\* a Remove of an element that lies between the left subtree and the root
\* has left a tree whose root has two children
C30_Witness ==
    /\ last.op = "Remove"
    /\ tree # <<>>
    /\ tree[2] # <<>>
    /\ tree[3] # <<>>
    /\ last.key < tree[1]
    /\ \A x \in ElementsOf(tree[2]) : x < last.key

\* C31: BinaryTree Clear() leaves an empty tree that can be used again:
\* after Clear the root refers to no node, IsEmpty() is true, Size() is 0,
\* a following Insert(x) gives the tree that holds exactly x, and a second
\* Clear releases no node twice.
C31_ClearEmpties ==
    [][/\ last'.op = "Clear" => ~crashed' /\ tree' = <<>>
       /\ last.op = "Clear" =>
              /\ last'.op = "IsEmpty" => last'.res = Bool(TRUE)
              /\ last'.op = "Size" => last'.res = Returned(0)
              /\ last'.op = "Insert" =>
                     ~crashed' /\ tree' = TreeNode(last'.key, <<>>, <<>>)
      ]_vars

\* the stored elements of a tree whose nodes are alive
Stored == IF tree = ReleasedRoot THEN {} ELSE ElementsOf(tree)

\* C32: BinaryTree lookups. On a non-empty tree FindMinElement() returns the
\* smallest and FindMaxElement() the largest stored element, FindElement(x)
\* returns x when x is stored and throws when it is not; on an empty tree
\* all three throw; none of them changes the tree.
C32_Lookups ==
    [][last'.op \in {"FindElement", "FindMaxElement", "FindMinElement"} =>
          /\ ~crashed'
          /\ tree' = tree
          /\ IF Stored = {}
             THEN last'.res.kind = "runtime_error"
             ELSE /\ last'.op = "FindMinElement" =>
                         last'.res = Returned(CHOOSE x \in Stored : \A y \in Stored : x <= y)
                  /\ last'.op = "FindMaxElement" =>
                         last'.res = Returned(CHOOSE x \in Stored : \A y \in Stored : x >= y)
                  /\ last'.op = "FindElement" =>
                         last'.res = IF last'.key \in Stored THEN Returned(last'.key)
                                     ELSE ElementNotFound
      ]_vars

\* the chains Insert scans: those of the table as it stands after the
\* growth step, if Insert takes it
Scanned ==
    IF NeedsResize THEN ResizedBuckets(buckets, buckets_size, table_size) ELSE buckets

C34_CopyKeepsSource ==
    [][(last'.op \in Copies /\ CapacityHolds(This)) =>
          /\ ~crashed'
          /\ This' = This
      ]_vars

=============================================================================
